---- MODULE Spec2Model ----
(***************************************************************************)
(* Wheel Weaver backend: the Schraner lacing pattern generator             *)
(* (app/compute/schraner.py) and the crosses validator                     *)
(* (app/compute/validation.py).                                            *)
(*                                                                         *)
(* One call is modelled per behaviour: Init draws the function that is     *)
(* called and its arguments, the actions are the successive statements of  *)
(* the called function.                                                    *)
(***************************************************************************)
EXTENDS Integers, Sequences, FiniteSets, TLC

VARIABLES
    fn,               \* the function under call
    req,              \* its argument(s)
    pc,               \* position inside the function
    h,                \* compute_pattern: local h
    effective_start,  \* compute_pattern: ctx.effective_start_rim_hole
    asym_note,        \* compute_pattern: local asym_note (<<>> is None)
    rows,             \* compute_pattern: local rows
    order_counter,    \* compute_pattern: local order_counter
    second_ref_idx,   \* compute_pattern: local second_ref_idx (0 before it is set)
    hub_idx,          \* history: hub_hole_index passed to make_row, per row
    raised,           \* the exception that left the function, if any
    ret,              \* <<>> until the function returns, then <<the returned value>>
    store,            \* presets API: the preset table, id -> row
    issued,           \* presets API: the ids uuid4 has handed out
    now,              \* presets API: the reading of datetime.utcnow()
    preq,             \* presets API: the request handled last
    presp,            \* presets API: the response to it
    hist_created,     \* history: ids returned by successful creates
    hist_deleted      \* history: ids of successful deletes

\* the variables of the presets API
pvars == <<store, issued, now, preq, presp, hist_created, hist_deleted>>

vars == <<fn, req, pc, h, effective_start, asym_note, rows, order_counter,
          second_ref_idx, hub_idx, raised, ret, pvars>>

----------------------------------------------------------------------------
(* Bounds of the explored inputs *)

\* largest holes-per-flange explored: holes ranges up to 2*MaxH + 1
MaxH == 18
\* crosses is drawn from -1..MaxCrosses
MaxCrosses == 8
\* start offsets are drawn from 1..MaxStart plus the last hole
MaxStart == 1
\* presets API: number of ids uuid4 can hand out
MaxPresets == 1
\* presets API: last reading of the clock
MaxClock == 2

----------------------------------------------------------------------------
(* Python helpers *)

\* range(start, stop, 2) as a list
Range2(start, stop) ==
    LET n == IF stop > start THEN (stop - start + 1) \div 2 ELSE 0
    IN  [i \in 1..n |-> start + 2 * (i - 1)]

\* range(start, stop) as a list
Range1(start, stop) ==
    LET n == IF stop > start THEN stop - start ELSE 0
    IN  [i \in 1..n |-> start + (i - 1)]

\* f"{x:02d}" for 0 <= x <= 99, as its two digits
Fmt02d(x) == <<x \div 10, x % 10>>

----------------------------------------------------------------------------
(* app/compute/validation.py *)

derive_H(holes) == holes \div 2

HolesMsg == "holes must be even and >= 20"
CrossesMsg == "crosses exceeds maximum for hole count"

\* max_crosses with the table dropped: the fallback formula for every hole count
max_crosses_formula_only(holes) ==
    (derive_H(holes) - 2) \div 2

\* the local max_crosses of validate_crosses
max_crosses(holes) ==
    LET hh == derive_H(holes)
    IN  IF holes = 20 THEN 1
        ELSE IF holes \in {24, 28} THEN 3
        ELSE IF holes \in {32, 36} THEN 4
        ELSE (hh - 2) \div 2

\* validate_crosses refusing the ceiling itself (>= for >)
validate_crosses_excl(holes, crosses) ==
    IF crosses < 0 \/ crosses >= max_crosses(holes)
    THEN CrossesMsg
    ELSE "None"

\* "None" when it passes, the ValueError message when it raises
validate_crosses(holes, crosses) ==
    IF crosses < 0 \/ crosses > max_crosses(holes)
    THEN CrossesMsg
    ELSE "None"

presets ==
    [hl \in {20, 24, 28, 32, 36} |->
        IF hl = 20 THEN <<0, 1, 2>>
        ELSE IF hl \in {24, 28} THEN <<0, 1, 2, 3>>
        ELSE <<0, 1, 2, 3, 4>>]

common_crosses(holes) ==
    IF holes \in DOMAIN presets
    THEN presets[holes]
    ELSE LET hh == derive_H(holes)
             mc == (hh - 2) \div 2
         IN  Range1(0, mc + 1)

----------------------------------------------------------------------------
(* app/compute/schraner.py: state-free derivation functions *)

\* _effective_start_rim_hole with a zero-based wrap (the + 1 forgotten)
_effective_start_rim_hole_zero_based(r) ==
    LET n == r.holes
    IN  IF r.valveReference = "right_of_valve"
        THEN (r.startRimHole - 2) % n
        ELSE r.startRimHole

_effective_start_rim_hole(r) ==
    LET n == r.holes
    IN  IF r.valveReference = "right_of_valve"
        THEN ((r.startRimHole - 2) % n) + 1
        ELSE r.startRimHole

_rim_hole_for_k(es, n, side, k) ==
    LET offset == IF side = "DS" THEN 2 * (k - 1) ELSE 1 + 2 * (k - 1)
    IN  (((es - 1) + offset) % n) + 1

\* _physical_hub_hole without the wrap into 1..h
_physical_hub_hole_nowrap(hub_hole_index, start_hub_hole, hh) ==
    (hub_hole_index - 1) + (start_hub_hole - 1) + 1

_physical_hub_hole(hub_hole_index, start_hub_hole, hh) ==
    (((hub_hole_index - 1) + (start_hub_hole - 1)) % hh) + 1

\* _heads_for_set where invertHeads swaps the odd set only
_heads_for_set_odd_only(r, odd_even_set) ==
    LET odd_heads == IF r.invertHeads THEN "IN" ELSE "OUT"
        even_heads == "IN"
    IN  IF odd_even_set = "Odd" THEN odd_heads ELSE even_heads

_heads_for_set(r, odd_even_set) ==
    LET odd_heads == IF r.invertHeads THEN "IN" ELSE "OUT"
        even_heads == IF r.invertHeads THEN "OUT" ELSE "IN"
    IN  IF odd_even_set = "Odd" THEN odd_heads ELSE even_heads

_crosses_described(crosses) ==
    IF crosses = 0
    THEN <<"0x radial">>
    ELSE <<crosses, "x (over ", crosses - 1, ", under 1)">>

_odd_even_set(hub_hole_index) ==
    IF hub_hole_index % 2 = 1 THEN "Odd" ELSE "Even"

\* _k_for_hub_hole whose NDS branch forgets the + 1 after the wrap
_k_for_hub_hole_nds_zero_based(hub_hole_index, crosses, side, hh) ==
    IF hub_hole_index % 2 = 1
    THEN hub_hole_index
    ELSE IF side = "DS"
         THEN ((hub_hole_index - 1 - 2 * crosses) % hh) + 1
         ELSE (hub_hole_index - 1 + 2 * crosses) % hh

\* _k_for_hub_hole whose DS branch shifts by crosses instead of 2 * crosses
_k_for_hub_hole_ds_single_shift(hub_hole_index, crosses, side, hh) ==
    IF hub_hole_index % 2 = 1
    THEN hub_hole_index
    ELSE IF side = "DS"
         THEN ((hub_hole_index - 1 - crosses) % hh) + 1
         ELSE ((hub_hole_index - 1 + 2 * crosses) % hh) + 1

_k_for_hub_hole(hub_hole_index, crosses, side, hh) ==
    IF hub_hole_index % 2 = 1
    THEN hub_hole_index
    ELSE IF side = "DS"
         THEN ((hub_hole_index - 1 - 2 * crosses) % hh) + 1
         ELSE ((hub_hole_index - 1 + 2 * crosses) % hh) + 1

AsymNote == "Asymmetrical build selected (heads unchanged in v1)"

\* make_row where the asymmetrical build also swaps the heads
make_row_asym_heads(r, hh, es, an, side, hub_hole_index, step, notes, order) ==
    LET odd_even == _odd_even_set(hub_hole_index)
        k == _k_for_hub_hole(hub_hole_index, r.crosses, side, hh)
        rim_hole == _rim_hole_for_k(es, r.holes, side, k)
        physical == IF side = "DS"
                    THEN _physical_hub_hole(hub_hole_index, r.startHubHoleDS, hh)
                    ELSE _physical_hub_hole(hub_hole_index, r.startHubHoleNDS, hh)
        heads == IF an # <<>>
                 THEN _heads_for_set([r EXCEPT !.invertHeads = ~r.invertHeads], odd_even)
                 ELSE _heads_for_set(r, odd_even)
        notes2 == IF an # <<>> THEN <<notes, ". ">> \o an ELSE <<notes>>
    IN  [spoke |-> <<side, "-">> \o Fmt02d(physical),
         order |-> order,
         step |-> step,
         side |-> side,
         oddEvenSet |-> odd_even,
         k |-> k,
         hubHole |-> physical,
         heads |-> heads,
         rimHole |-> rim_hole,
         crossesDescribed |-> _crosses_described(r.crosses),
         notes |-> notes2]

\* make_row that rotates both flanges by the DS start offset
make_row_ds_offset_both(r, hh, es, an, side, hub_hole_index, step, notes, order) ==
    LET odd_even == _odd_even_set(hub_hole_index)
        k == _k_for_hub_hole(hub_hole_index, r.crosses, side, hh)
        rim_hole == _rim_hole_for_k(es, r.holes, side, k)
        physical == _physical_hub_hole(hub_hole_index, r.startHubHoleDS, hh)
        heads == _heads_for_set(r, odd_even)
        notes2 == IF an # <<>> THEN <<notes, ". ">> \o an ELSE <<notes>>
    IN  [spoke |-> <<side, "-">> \o Fmt02d(physical),
         order |-> order,
         step |-> step,
         side |-> side,
         oddEvenSet |-> odd_even,
         k |-> k,
         hubHole |-> physical,
         heads |-> heads,
         rimHole |-> rim_hole,
         crossesDescribed |-> _crosses_described(r.crosses),
         notes |-> notes2]

\* the closure make_row of compute_pattern; r, hh, es, an are the captured
\* req, h, ctx.effective_start_rim_hole and asym_note
make_row(r, hh, es, an, side, hub_hole_index, step, notes, order) ==
    LET odd_even == _odd_even_set(hub_hole_index)
        k == _k_for_hub_hole(hub_hole_index, r.crosses, side, hh)
        rim_hole == _rim_hole_for_k(es, r.holes, side, k)
        physical == IF side = "DS"
                    THEN _physical_hub_hole(hub_hole_index, r.startHubHoleDS, hh)
                    ELSE _physical_hub_hole(hub_hole_index, r.startHubHoleNDS, hh)
        heads == _heads_for_set(r, odd_even)
        notes2 == IF an # <<>> THEN <<notes, ". ">> \o an ELSE <<notes>>
    IN  [spoke |-> <<side, "-">> \o Fmt02d(physical),
         order |-> order,
         step |-> step,
         side |-> side,
         oddEvenSet |-> odd_even,
         k |-> k,
         hubHole |-> physical,
         heads |-> heads,
         rimHole |-> rim_hole,
         crossesDescribed |-> _crosses_described(r.crosses),
         notes |-> notes2]

\* the rows the closure add_rows appends, starting at order counter oc
add_rows(r, hh, es, an, oc, side, hub_indices, step, notes) ==
    [i \in 1..Len(hub_indices) |->
        make_row(r, hh, es, an, side, hub_indices[i], step, notes, oc + i - 1)]

odd_indices(hh) == Range2(1, hh + 1)
even_indices(hh) == Range2(2, hh + 1)

\* remaining_odd that keeps index 1
remaining_odd_keep_first(hh) == odd_indices(hh)

remaining_odd(hh) == SelectSeq(odd_indices(hh), LAMBDA idx : idx # 1)
\* remaining_even that keeps the second-reference index
remaining_even_keep_ref(hh, sri) == even_indices(hh)

remaining_even(hh, sri) == SelectSeq(even_indices(hh), LAMBDA idx : idx # sri)

\* the post-build self-check: missing and duplicates over the rim holes
rim_holes(rs) == [i \in 1..Len(rs) |-> rs[i].rimHole]
missing(rs, n) == {hole \in 1..n : \A i \in 1..Len(rs) : rs[i].rimHole # hole}
duplicates(rs) ==
    {rs[i].rimHole : i \in {j \in 1..Len(rs) :
                              \E l \in 1..Len(rs) : l # j /\ rs[l].rimHole = rs[j].rimHole}}

----------------------------------------------------------------------------
(* Inputs *)

InputHoles == 18..(2 * MaxH + 1)
InputCrosses == (-1)..MaxCrosses
Starts(m) == {s \in 1..m : s <= MaxStart \/ s = m}

PatternRequests ==
    UNION {
      [holes : {n}, wheelType : {"rear", "front"}, crosses : InputCrosses,
       symmetry : {"symmetrical", "asymmetrical"}, invertHeads : BOOLEAN,
       startRimHole : Starts(n), valveReference : {"right_of_valve", "left_of_valve"},
       startHubHoleDS : Starts(derive_H(n)), startHubHoleNDS : Starts(derive_H(n))]
      : n \in InputHoles }

ValidateArgs == [holes : InputHoles, crosses : InputCrosses]
CommonArgs == [holes : InputHoles]

NoException == [type |-> "none", msg |-> ""]

\* no request handled yet
NoRequest == [op |-> "none", id |-> 0, name |-> <<>>, params |-> <<>>]
NoResponse == [status |-> 0, body |-> <<>>]

\* the presets API before its first request: an empty table
PresetsIdle ==
    /\ store = [id \in 1..MaxPresets |-> <<>>]
    /\ issued = {}
    /\ now = 0
    /\ preq = NoRequest
    /\ presp = NoResponse
    /\ hist_created = {}
    /\ hist_deleted = {}

Init ==
    /\ \/ fn = "compute_pattern" /\ req \in PatternRequests
       \/ fn = "validate_crosses" /\ req \in ValidateArgs
       \/ fn = "common_crosses" /\ req \in CommonArgs
    /\ pc = "start"
    /\ h = 0
    /\ effective_start = 0
    /\ asym_note = <<>>
    /\ rows = <<>>
    /\ order_counter = 0
    /\ second_ref_idx = 0
    /\ hub_idx = <<>>
    /\ raised = NoException
    /\ ret = <<>>
    /\ PresetsIdle

----------------------------------------------------------------------------
(* compute_pattern, statement by statement *)

locals == <<h, effective_start, asym_note, rows, order_counter, second_ref_idx, hub_idx>>

\* CheckHoles without the parity test
CheckHoles_no_parity ==
    /\ fn = "compute_pattern" /\ pc = "start"
    /\ LET n == req.holes
       IN  IF n < 20
           THEN /\ raised' = [type |-> "ValueError", msg |-> HolesMsg]
                /\ pc' = "raised"
           ELSE /\ raised' = raised
                /\ pc' = "validate"
    /\ UNCHANGED <<pvars, fn, req, h, effective_start, asym_note, rows, order_counter,
                   second_ref_idx, hub_idx, ret>>

\* lines 63-65
CheckHoles ==
    /\ fn = "compute_pattern" /\ pc = "start"
    /\ LET n == req.holes
       IN  IF n < 20 \/ n % 2 # 0
           THEN /\ raised' = [type |-> "ValueError", msg |-> HolesMsg]
                /\ pc' = "raised"
           ELSE /\ raised' = raised
                /\ pc' = "validate"
    /\ UNCHANGED <<pvars, fn, req, locals, ret>>

\* lines 67-112
ValidateAndSetup ==
    /\ fn = "compute_pattern" /\ pc = "validate"
    /\ IF validate_crosses(req.holes, req.crosses) # "None"
       THEN /\ raised' = [type |-> "ValueError",
                          msg |-> validate_crosses(req.holes, req.crosses)]
            /\ pc' = "raised"
            /\ UNCHANGED locals
       ELSE /\ h' = derive_H(req.holes)
            /\ effective_start' = _effective_start_rim_hole(req)
            /\ asym_note' = IF req.symmetry = "asymmetrical" THEN <<AsymNote>> ELSE <<>>
            /\ rows' = <<>>
            /\ order_counter' = 1
            /\ pc' = "ds_ref"
            /\ UNCHANGED <<second_ref_idx, hub_idx, raised>>
    /\ UNCHANGED <<pvars, fn, req, ret>>

\* rows.append(make_row(...)); order_counter += 1
AppendRow(side, idx, step, notes) ==
    /\ rows' = Append(rows, make_row(req, h, effective_start, asym_note,
                                     side, idx, step, notes, order_counter))
    /\ hub_idx' = Append(hub_idx, idx)
    /\ order_counter' = order_counter + 1

\* add_rows(side, hub_indices, step, notes)
AddRows(side, hub_indices, step, notes) ==
    /\ rows' = rows \o add_rows(req, h, effective_start, asym_note, order_counter,
                               side, hub_indices, step, notes)
    /\ hub_idx' = hub_idx \o hub_indices
    /\ order_counter' = order_counter + Len(hub_indices)

\* lines 121-130
DSFirstRef ==
    /\ fn = "compute_pattern" /\ pc = "ds_ref"
    /\ AppendRow("DS", 1, "R1", "Reference at valve (valve-left)")
    /\ pc' = "ds_second_ref"
    /\ UNCHANGED <<pvars, fn, req, h, effective_start, asym_note, second_ref_idx, raised, ret>>

\* second_ref_idx wrapped from the one-based value (the - 1 forgotten)
SecondRefIdx_late_wrap(crosses, hh) ==
    LET s == IF crosses = 0 THEN 2 ELSE 2 * crosses + 2
    IN  (s % hh) + 1

\* the value lines 132-136 give second_ref_idx
SecondRefIdx(crosses, hh) ==
    LET s == IF crosses = 0 THEN 2 ELSE 2 * crosses + 2
    IN  ((s - 1) % hh) + 1

\* the row list lines 111-182 build for request r
pattern_rows(r) ==
    LET hh == derive_H(r.holes)
        es == _effective_start_rim_hole(r)
        an == IF r.symmetry = "asymmetrical" THEN <<AsymNote>> ELSE <<>>
        sri == SecondRefIdx(r.crosses, hh)
        ro == remaining_odd(hh)
        re == remaining_even(hh, sri)
        ds == <<make_row(r, hh, es, an, "DS", 1, "R1",
                         "Reference at valve (valve-left)", 1),
                make_row(r, hh, es, an, "DS", sri, "R1",
                         "Second reference at valve (valve-right)", 2)>>
              \o add_rows(r, hh, es, an, 3, "DS", ro, "R2", "Odd set fill")
              \o add_rows(r, hh, es, an, 3 + Len(ro), "DS", re, "R3", "Even set weave")
        o2 == Len(ds) + 1
    IN  ds
        \o <<make_row(r, hh, es, an, "NDS", 1, "L1",
                      "NDS start reference (valve-right)", o2),
             make_row(r, hh, es, an, "NDS", sri, "L1",
                      "Second reference (valve-left)", o2 + 1)>>
        \o add_rows(r, hh, es, an, o2 + 2, "NDS", ro, "L3", "Odd set fill")
        \o add_rows(r, hh, es, an, o2 + 2 + Len(ro), "NDS", re, "L4", "Even set weave")

\* lines 132-146
DSSecondRef ==
    /\ fn = "compute_pattern" /\ pc = "ds_second_ref"
    /\ second_ref_idx' = SecondRefIdx(req.crosses, h)
    /\ AppendRow("DS", second_ref_idx', "R1", "Second reference at valve (valve-right)")
    /\ pc' = "ds_odd"
    /\ UNCHANGED <<pvars, fn, req, h, effective_start, asym_note, raised, ret>>

\* lines 148-154
DSOdd ==
    /\ fn = "compute_pattern" /\ pc = "ds_odd"
    /\ AddRows("DS", remaining_odd(h), "R2", "Odd set fill")
    /\ pc' = "ds_even"
    /\ UNCHANGED <<pvars, fn, req, h, effective_start, asym_note, second_ref_idx, raised, ret>>

\* line 155
DSEven ==
    /\ fn = "compute_pattern" /\ pc = "ds_even"
    /\ AddRows("DS", remaining_even(h, second_ref_idx), "R3", "Even set weave")
    /\ pc' = "nds_ref"
    /\ UNCHANGED <<pvars, fn, req, h, effective_start, asym_note, second_ref_idx, raised, ret>>

\* lines 158-167
NDSFirstRef ==
    /\ fn = "compute_pattern" /\ pc = "nds_ref"
    /\ AppendRow("NDS", 1, "L1", "NDS start reference (valve-right)")
    /\ pc' = "nds_second_ref"
    /\ UNCHANGED <<pvars, fn, req, h, effective_start, asym_note, second_ref_idx, raised, ret>>

\* lines 168-178
NDSSecondRef ==
    /\ fn = "compute_pattern" /\ pc = "nds_second_ref"
    /\ AppendRow("NDS", second_ref_idx, "L1", "Second reference (valve-left)")
    /\ pc' = "nds_odd"
    /\ UNCHANGED <<pvars, fn, req, h, effective_start, asym_note, second_ref_idx, raised, ret>>

\* lines 179-180
NDSOdd ==
    /\ fn = "compute_pattern" /\ pc = "nds_odd"
    /\ AddRows("NDS", remaining_odd(h), "L3", "Odd set fill")
    /\ pc' = "nds_even"
    /\ UNCHANGED <<pvars, fn, req, h, effective_start, asym_note, second_ref_idx, raised, ret>>

\* lines 181-182
NDSEven ==
    /\ fn = "compute_pattern" /\ pc = "nds_even"
    /\ AddRows("NDS", remaining_even(h, second_ref_idx), "L4", "Even set weave")
    /\ pc' = "self_check"
    /\ UNCHANGED <<pvars, fn, req, h, effective_start, asym_note, second_ref_idx, raised, ret>>

\* lines 184-193
SelfCheck ==
    /\ fn = "compute_pattern" /\ pc = "self_check"
    /\ IF req.holes = 32 /\ ~(missing(rows, req.holes) = {} /\ duplicates(rows) = {})
       THEN /\ raised' = [type |-> "AssertionError", msg |-> ""]
            /\ pc' = "raised"
       ELSE /\ raised' = raised
            /\ pc' = "build_response"
    /\ UNCHANGED <<pvars, fn, req, locals, ret>>

\* lines 195-201
Return ==
    /\ fn = "compute_pattern" /\ pc = "build_response"
    /\ ret' = <<[params |-> req,
                 derived |-> [H |-> h, spokesPerSide |-> h, spokesPerSet |-> h \div 2],
                 rows |-> rows]>>
    /\ pc' = "returned"
    /\ UNCHANGED <<pvars, fn, req, locals, raised>>

----------------------------------------------------------------------------
(* the validator called on its own *)

CallValidateCrosses ==
    /\ fn = "validate_crosses" /\ pc = "start"
    /\ IF validate_crosses(req.holes, req.crosses) # "None"
       THEN /\ raised' = [type |-> "ValueError",
                          msg |-> validate_crosses(req.holes, req.crosses)]
            /\ pc' = "raised"
            /\ ret' = ret
       ELSE /\ raised' = raised
            /\ pc' = "returned"
            /\ ret' = <<"None">>
    /\ UNCHANGED <<pvars, fn, req, locals>>

CallCommonCrosses ==
    /\ fn = "common_crosses" /\ pc = "start"
    /\ ret' = <<common_crosses(req.holes)>>
    /\ pc' = "returned"
    /\ UNCHANGED <<pvars, fn, req, locals, raised>>

Next ==
    \/ CheckHoles
    \/ ValidateAndSetup
    \/ DSFirstRef
    \/ DSSecondRef
    \/ DSOdd
    \/ DSEven
    \/ NDSFirstRef
    \/ NDSSecondRef
    \/ NDSOdd
    \/ NDSEven
    \/ SelfCheck
    \/ Return
    \/ CallValidateCrosses
    \/ CallCommonCrosses

Spec == Init /\ [][Next]_vars

----------------------------------------------------------------------------
(* app/api.py, app/presets.py: the presets API.  Each handler runs in its  *)
(* own session and commits once, so a handler is one step.                *)

PresetIds == 1..MaxPresets
PresetNames == {"My 32H 3x", "Updated 32H 2x"}

\* the parameter payloads of the CRUD test
PresetParams ==
    [holes : {32}, wheelType : {"rear"}, crosses : {3, 2},
     symmetry : {"symmetrical"}, invertHeads : {FALSE}, startRimHole : {1},
     valveReference : {"right_of_valve"}, startHubHoleDS : {1},
     startHubHoleNDS : {1}]

\* the compute variables, idle while the presets API is served
cvars == <<fn, req, pc, locals, raised, ret>>

\* the ids with a row in the table
Present(st) == {id \in PresetIds : st[id] # <<>>}

\* the readings datetime.utcnow() can give after the reading t
Readings(t) == {u \in {t, t + 1} : u <= MaxClock}

\* the columns a parameter payload is stored in
param_columns(preset, params) ==
    [preset EXCEPT !.holes = params.holes,
                   !.wheelType = params.wheelType,
                   !.crosses = params.crosses,
                   !.symmetry = params.symmetry,
                   !.invertHeads = params.invertHeads,
                   !.startRimHole = params.startRimHole,
                   !.valveReference = params.valveReference,
                   !.startHubHoleDS = params.startHubHoleDS,
                   !.startHubHoleNDS = params.startHubHoleNDS]

\* Preset(name=..., holes=..., ...) with its default id and timestamps
Preset(id, name, params, created, updated) ==
    [id |-> id, name |-> name,
     holes |-> params.holes, wheelType |-> params.wheelType,
     crosses |-> params.crosses, symmetry |-> params.symmetry,
     invertHeads |-> params.invertHeads, startRimHole |-> params.startRimHole,
     valveReference |-> params.valveReference,
     startHubHoleDS |-> params.startHubHoleDS,
     startHubHoleNDS |-> params.startHubHoleNDS,
     createdAt |-> created, updatedAt |-> updated]

preset_to_detail(preset) ==
    [id |-> preset.id,
     name |-> preset.name,
     params |-> [holes |-> preset.holes, wheelType |-> preset.wheelType,
                 crosses |-> preset.crosses, symmetry |-> preset.symmetry,
                 invertHeads |-> preset.invertHeads,
                 startRimHole |-> preset.startRimHole,
                 valveReference |-> preset.valveReference,
                 startHubHoleDS |-> preset.startHubHoleDS,
                 startHubHoleNDS |-> preset.startHubHoleNDS],
     createdAt |-> preset.createdAt,
     updatedAt |-> preset.updatedAt]

PresetSummary(preset) ==
    [id |-> preset.id, name |-> preset.name, holes |-> preset.holes,
     wheelType |-> preset.wheelType, crosses |-> preset.crosses,
     symmetry |-> preset.symmetry, updatedAt |-> preset.updatedAt]

NotFound == [status |-> 404, body |-> <<"Preset not found">>]

\* the orders select(Preset).order_by(Preset.updatedAt.desc()) can give
Orderings(st) ==
    {o \in [1..Cardinality(Present(st)) -> Present(st)] :
        /\ \A i, j \in DOMAIN o : i # j => o[i] # o[j]
        /\ \A i, j \in DOMAIN o : i < j => st[o[i]][1].updatedAt >= st[o[j]][1].updatedAt}

InitPresets ==
    /\ fn = "presets"
    /\ req = <<>>
    /\ pc = "serving"
    /\ h = 0
    /\ effective_start = 0
    /\ asym_note = <<>>
    /\ rows = <<>>
    /\ order_counter = 0
    /\ second_ref_idx = 0
    /\ hub_idx = <<>>
    /\ raised = NoException
    /\ ret = <<>>
    /\ store = [id \in PresetIds |-> <<>>]
    /\ issued = {}
    /\ now = 0
    /\ preq = NoRequest
    /\ presp = NoResponse
    /\ hist_created = {}
    /\ hist_deleted = {}

\* GET /api/presets
list_presets ==
    /\ fn = "presets"
    /\ preq' = [op |-> "list", id |-> 0, name |-> <<>>, params |-> <<>>]
    /\ \E o \in Orderings(store) :
          presp' = [status |-> 200,
                    body |-> <<[i \in DOMAIN o |-> PresetSummary(store[o[i]][1])]>>]
    /\ UNCHANGED <<store, issued, now, hist_created, hist_deleted, cvars>>

\* POST /api/presets
create_preset ==
    /\ fn = "presets"
    /\ \E name \in PresetNames, params \in PresetParams,
          id \in PresetIds \ issued, created \in Readings(now) :
          \E updated \in Readings(created) :
            LET preset == Preset(id, name, params, created, updated)
            IN  /\ preq' = [op |-> "create", id |-> 0,
                            name |-> <<name>>, params |-> <<params>>]
                /\ store' = [store EXCEPT ![id] = <<preset>>]
                /\ issued' = issued \cup {id}
                /\ now' = updated
                /\ presp' = [status |-> 200, body |-> <<preset_to_detail(preset)>>]
                /\ hist_created' = hist_created \cup {id}
    /\ UNCHANGED <<hist_deleted, cvars>>

\* GET /api/presets/{preset_id}
get_preset ==
    /\ fn = "presets"
    /\ \E preset_id \in PresetIds :
          /\ preq' = [op |-> "get", id |-> preset_id, name |-> <<>>, params |-> <<>>]
          /\ presp' = IF store[preset_id] = <<>>
                      THEN NotFound
                      ELSE [status |-> 200,
                            body |-> <<preset_to_detail(store[preset_id][1])>>]
    /\ UNCHANGED <<store, issued, now, hist_created, hist_deleted, cvars>>

\* the payloads of PresetUpdate: each field given or None (<<>>)
PresetUpdates ==
    [name : {<<>>} \cup {<<nm>> : nm \in PresetNames},
     params : {<<>>} \cup {<<pp>> : pp \in PresetParams}]

\* updated_preset rebuilding the row, creation time included
updated_preset_recreated(preset, payload, t) ==
    LET named == IF payload.name # <<>>
                 THEN [preset EXCEPT !.name = payload.name[1]]
                 ELSE preset
        filled == IF payload.params # <<>>
                  THEN param_columns(named, payload.params[1])
                  ELSE named
    IN  [filled EXCEPT !.updatedAt = t, !.createdAt = t]

\* the row lines 431-444 leave for a payload and a clock reading
updated_preset(preset, payload, t) ==
    LET named == IF payload.name # <<>>
                 THEN [preset EXCEPT !.name = payload.name[1]]
                 ELSE preset
        filled == IF payload.params # <<>>
                  THEN param_columns(named, payload.params[1])
                  ELSE named
    IN  [filled EXCEPT !.updatedAt = t]

\* PUT /api/presets/{preset_id}
update_preset ==
    /\ fn = "presets"
    /\ \E preset_id \in PresetIds, payload \in PresetUpdates, t \in Readings(now) :
          /\ preq' = [op |-> "update", id |-> preset_id,
                      name |-> payload.name, params |-> payload.params]
          /\ IF store[preset_id] = <<>>
             THEN /\ presp' = NotFound
                  /\ UNCHANGED <<store, now>>
             ELSE LET preset == updated_preset(store[preset_id][1], payload, t)
                  IN  /\ store' = [store EXCEPT ![preset_id] = <<preset>>]
                      /\ now' = t
                      /\ presp' = [status |-> 200, body |-> <<preset_to_detail(preset)>>]
    /\ UNCHANGED <<issued, hist_created, hist_deleted, cvars>>

\* DELETE /api/presets/{preset_id}
delete_preset ==
    /\ fn = "presets"
    /\ \E preset_id \in PresetIds :
          /\ preq' = [op |-> "delete", id |-> preset_id, name |-> <<>>, params |-> <<>>]
          /\ IF store[preset_id] = <<>>
             THEN /\ presp' = NotFound
                  /\ UNCHANGED <<store, hist_deleted>>
             ELSE /\ store' = [store EXCEPT ![preset_id] = <<>>]
                  /\ presp' = [status |-> 200, body |-> <<[ok |-> TRUE]>>]
                  /\ hist_deleted' = hist_deleted \cup {preset_id}
    /\ UNCHANGED <<issued, now, hist_created, cvars>>

NextPresets ==
    \/ list_presets
    \/ create_preset
    \/ get_preset
    \/ update_preset
    \/ delete_preset

SpecPresets == InitPresets /\ [][NextPresets]_vars

----------------------------------------------------------------------------
(* Properties of compute_pattern *)

\* compute_pattern has returned a response
Returned == fn = "compute_pattern" /\ pc = "returned"

\* the positions of the rows of one side in a row list
SideRows(rs, side) == {i \in 1..Len(rs) : rs[i].side = side}

\* the positions of the rows of one side whose note starts with the given text
NotedRows(rs, side, note) == {i \in SideRows(rs, side) : rs[i].notes[1] = note}

\* the base request of the tests but for the fields that do not reach the lacing
IsBase32x3 ==
    /\ req.holes = 32 /\ req.crosses = 3
    /\ req.startRimHole = 1 /\ req.valveReference = "right_of_valve"
    /\ req.startHubHoleDS = 1 /\ req.startHubHoleNDS = 1

\* C1: for every accepted symmetrical parameter set the rimHole values of the
\* returned rows are a permutation of 1..N: each rim hole is used exactly once.
C1_RimHolesPermutation ==
    (Returned /\ req.symmetry = "symmetrical") =>
        LET rs == ret[1].rows
        IN  /\ Len(rs) = req.holes
            /\ \A hole \in 1..req.holes :
                  Cardinality({i \in 1..Len(rs) : rs[i].rimHole = hole}) = 1

\* C2: for every accepted (holes, crosses) compute_pattern returns exactly
\* `holes` rows and the order field of the i-th row is i.
C2_RowCountAndOrder ==
    Returned =>
        LET rs == ret[1].rows
        IN  /\ Len(rs) = req.holes
            /\ \A i \in 1..Len(rs) : rs[i].order = i

\* C2 witness: a response for an untabulated hole count with an odd flange
C2_Witness ==
    /\ Returned /\ req.holes = 34 /\ req.crosses = 7
    /\ Len(ret[1].rows) = 34 /\ ret[1].rows[34].order = 34

\* C3: in every response the DS rows number exactly H and their hubHole values
\* are exactly 1..H, each once; likewise the NDS rows.
C3_HubHolesPerSide ==
    Returned =>
        LET rs == ret[1].rows
            hh == req.holes \div 2
        IN  \A side \in {"DS", "NDS"} :
              /\ Cardinality(SideRows(rs, side)) = hh
              /\ \A hole \in 1..hh :
                    Cardinality({i \in SideRows(rs, side) : rs[i].hubHole = hole}) = 1

\* C3 witness: a response whose DS flange is rotated by H - 1 holes
C3_Witness ==
    /\ Returned /\ req.holes = 22 /\ req.crosses = 4
    /\ req.startHubHoleDS = 11 /\ req.startHubHoleNDS = 1
    /\ ret[1].rows[1].hubHole = 11

\* C4: for holes=32, crosses=3, right_of_valve, startRimHole=1 and hub offsets 1
\* the DS first-reference row has rimHole 32, the DS second-reference row
\* rimHole 1, the NDS first-reference row rimHole 1 and the NDS
\* second-reference row rimHole 32.
C4_ValveReferencePairing ==
    (Returned /\ IsBase32x3) =>
        LET rs == ret[1].rows
        IN  /\ \A i \in NotedRows(rs, "DS", "Reference at valve (valve-left)") :
                  rs[i].rimHole = 32
            /\ \A i \in NotedRows(rs, "DS", "Second reference at valve (valve-right)") :
                  rs[i].rimHole = 1
            /\ \A i \in NotedRows(rs, "NDS", "NDS start reference (valve-right)") :
                  rs[i].rimHole = 1
            /\ \A i \in NotedRows(rs, "NDS", "Second reference (valve-left)") :
                  rs[i].rimHole = 32

\* C5: for the base request holes=32, crosses=3 there is a DS row and an NDS
\* row with k = 16, every DS row with k = 16 has rimHole 31 and every NDS row
\* with k = 16 has rimHole 32.
C5_RimWrapAtK16 ==
    (Returned /\ IsBase32x3) =>
        LET rs == ret[1].rows
            ds_k16 == {i \in SideRows(rs, "DS") : rs[i].k = 16}
            nds_k16 == {i \in SideRows(rs, "NDS") : rs[i].k = 16}
        IN  /\ ds_k16 # {}
            /\ nds_k16 # {}
            /\ {rs[i].rimHole : i \in ds_k16} = {31}
            /\ {rs[i].rimHole : i \in nds_k16} = {32}

\* the ceiling the validator is specified to apply to crosses
Ceiling(holes) ==
    CASE holes = 20 -> 1
      [] holes \in {24, 28} -> 3
      [] holes \in {32, 36} -> 4
      [] OTHER -> (holes - 4) \div 4

\* validate_crosses has finished, by returning or by raising
ValidateDone == fn = "validate_crosses" /\ pc \in {"returned", "raised"}

\* C6: validate_crosses(holes, crosses) passes if and only if
\* 0 <= crosses <= ceiling(holes); (20,1), (24,3), (28,3), (32,4), (36,4) pass,
\* (20,2), (24,4), (28,4), (32,5), (36,5) fail, every negative crosses fails.
C6_ValidateCrossesCeiling ==
    ValidateDone =>
        /\ pc = "returned" <=> (0 <= req.crosses /\ req.crosses <= Ceiling(req.holes))
        /\ pc = "raised" => raised = [type |-> "ValueError", msg |-> CrossesMsg]
        /\ <<req.holes, req.crosses>> \in
              {<<20, 1>>, <<24, 3>>, <<28, 3>>, <<32, 4>>, <<36, 4>>} => pc = "returned"
        /\ <<req.holes, req.crosses>> \in
              {<<20, 2>>, <<24, 4>>, <<28, 4>>, <<32, 5>>, <<36, 5>>} => pc = "raised"
        /\ req.crosses < 0 => pc = "raised"

\* C6 witness: the validator has refused 5 crosses on 36 holes
C6_Witness ==
    /\ fn = "validate_crosses" /\ pc = "raised"
    /\ req.holes = 36 /\ req.crosses = 5

\* C7: for every even holes >= 20, common_crosses(holes) is exactly the
\* ascending list of the crosses values validate_crosses(holes, .) accepts.
C7_CommonCrossesConsistent ==
    (fn = "common_crosses" /\ pc = "returned"
        /\ req.holes >= 20 /\ req.holes % 2 = 0) =>
        LET cc == ret[1]
        IN  /\ \A i \in 1..Len(cc) : cc[i] = i - 1
            /\ \A c \in (-1)..req.holes :
                  (\E i \in 1..Len(cc) : cc[i] = c)
                      <=> validate_crosses(req.holes, c) = "None"

Tabulated == {20, 24, 28, 32, 36}

\* compute_pattern has finished, by returning or by raising
ComputeDone == fn = "compute_pattern" /\ pc \in {"returned", "raised"}

HolesValid(n) == n >= 20 /\ n % 2 = 0

HeadsOf(set, invert) ==
    IF invert
    THEN (IF set = "Odd" THEN "IN" ELSE "OUT")
    ELSE (IF set = "Odd" THEN "OUT" ELSE "IN")

\* C10: in every returned row oddEvenSet is Odd exactly when the logical hub
\* index (before rotation) is odd, heads depends on oddEvenSet and invertHeads
\* only (Odd OUT / Even IN, swapped together by invertHeads), and toggling
\* invertHeads flips heads in every row and changes no other field of any row.
C10_HeadsBySet ==
    Returned =>
        LET rs == ret[1].rows
            toggled == pattern_rows([req EXCEPT !.invertHeads = ~req.invertHeads])
        IN  /\ rs = pattern_rows(req)
            /\ Len(hub_idx) = Len(rs)
            /\ \A i \in 1..Len(rs) :
                  /\ rs[i].oddEvenSet = (IF hub_idx[i] % 2 = 1 THEN "Odd" ELSE "Even")
                  /\ rs[i].heads = HeadsOf(rs[i].oddEvenSet, req.invertHeads)
            /\ Len(toggled) = Len(rs)
            /\ \A i \in 1..Len(rs) :
                  /\ toggled[i].heads # rs[i].heads
                  /\ toggled[i].heads \in {"IN", "OUT"}
                  /\ [toggled[i] EXCEPT !.heads = rs[i].heads] = rs[i]

\* C10 witness: heads inverted and the DS flange rotated so that the physical
\* hub hole of the first row is even while its logical index 1 is odd
C10_Witness ==
    /\ Returned /\ req.invertHeads /\ req.holes = 32 /\ req.startHubHoleDS = 16
    /\ hub_idx[1] = 1 /\ ret[1].rows[1].hubHole = 16
    /\ ret[1].rows[1].oddEvenSet = "Odd" /\ ret[1].rows[1].heads = "IN"
    /\ ret[1].rows[2].oddEvenSet = "Even" /\ ret[1].rows[2].heads = "OUT"

\* the rim holes the rows of one side occupy
SideRimHoles(rs, side) == {rs[i].rimHole : i \in SideRows(rs, side)}

DsSecondRefRows(rs) ==
    {i \in SideRows(rs, "DS") :
        rs[i].notes[1] = "Second reference at valve (valve-right)"}

\* C12: every response has exactly one DS row noted as the second reference;
\* it is the row with order 2 and step R1, its logical hub index is
\* 2*crosses + 2, even and within 2..H, and its hubHole is
\* ((2*crosses + 1) + (startHubHoleDS - 1)) mod H + 1 (8 for the base request).
C12_SecondReferenceRow ==
    Returned =>
        LET rs == ret[1].rows
            hh == req.holes \div 2
        IN  /\ DsSecondRefRows(rs) = {2}
            /\ \A i \in 1..Len(rs) :
                  (rs[i].side = "DS" /\ i # 2) =>
                      \A j \in 1..Len(rs[i].notes) :
                          rs[i].notes[j] # "Second reference at valve (valve-right)"
            /\ rs[2].order = 2 /\ rs[2].step = "R1"
            /\ hub_idx[2] = 2 * req.crosses + 2
            /\ hub_idx[2] % 2 = 0 /\ 2 <= hub_idx[2] /\ hub_idx[2] <= hh
            /\ rs[2].hubHole =
                  (((2 * req.crosses + 1) + (req.startHubHoleDS - 1)) % hh) + 1
            /\ (IsBase32x3 => rs[2].hubHole = 8)

\* C12 witness: the largest accepted crosses on 34 holes, 2*crosses + 2 = 16
\* on a flange of 17, rotated by H - 1
C12_Witness ==
    /\ Returned /\ req.holes = 34 /\ req.crosses = 7 /\ req.startHubHoleDS = 17
    /\ hub_idx[2] = 16 /\ ret[1].rows[2].hubHole = 15

\* the place of a step label in the workshop sequence
StepRank(step) ==
    CASE step = "R1" -> 1 [] step = "R2" -> 2 [] step = "R3" -> 3
      [] step = "L1" -> 4 [] step = "L3" -> 5 [] step = "L4" -> 6
      [] OTHER -> 0

\* the positions of the rows carrying a step label
StepRows(rs, step) == {i \in 1..Len(rs) : rs[i].step = step}

\* the rows of a step carry exactly the logical indices S, in ascending order
StepCarries(rs, step, S) ==
    /\ {hub_idx[i] : i \in StepRows(rs, step)} = S
    /\ Cardinality(StepRows(rs, step)) = Cardinality(S)
    /\ \A i, j \in StepRows(rs, step) : i < j => hub_idx[i] < hub_idx[j]

\* C13: read in order, the step labels follow R1, R1, R2..., R3..., L1, L1,
\* L3..., L4...: DS rows precede NDS rows, no later step precedes an earlier
\* one, R2 and L3 carry the odd logical indices other than 1 ascending, R3 and
\* L4 the even logical indices other than the second-reference index
\* ascending, and the NDS second reference uses the DS second-reference index.
C13_StepSequence ==
    Returned =>
        LET rs == ret[1].rows
            hh == req.holes \div 2
            odds == {x \in 2..hh : x % 2 = 1}
            evens == {x \in 1..hh : x % 2 = 0 /\ x # hub_idx[2]}
        IN  /\ \A i \in 1..Len(rs) : StepRank(rs[i].step) > 0
            /\ \A i \in 1..(Len(rs) - 1) :
                  /\ StepRank(rs[i].step) <= StepRank(rs[i + 1].step)
                  /\ (rs[i + 1].side = "DS" => rs[i].side = "DS")
            /\ \A i \in 1..Len(rs) :
                  rs[i].side = "DS" <=> rs[i].step \in {"R1", "R2", "R3"}
            /\ StepRows(rs, "R1") = {1, 2}
            /\ StepRows(rs, "L1") = {hh + 1, hh + 2}
            /\ hub_idx[1] = 1 /\ hub_idx[hh + 1] = 1
            /\ hub_idx[hh + 2] = hub_idx[2]
            /\ StepCarries(rs, "R2", odds)
            /\ StepCarries(rs, "L3", odds)
            /\ StepCarries(rs, "R3", evens)
            /\ StepCarries(rs, "L4", evens)

\* C13 witness: a response on an odd flange whose second reference (index 6)
\* lies inside the even set
C13_Witness ==
    /\ Returned /\ req.holes = 22 /\ req.crosses = 2
    /\ ret[1].rows[3].step = "R2" /\ hub_idx[3] = 3
    /\ ret[1].rows[9].step = "R3" /\ hub_idx[9] = 4 /\ hub_idx[10] = 8
    /\ ret[1].rows[22].step = "L4" /\ hub_idx[22] = 10

\* the effective start the specification gives a request
ExpectedStart(r) ==
    IF r.valveReference = "left_of_valve"
    THEN r.startRimHole
    ELSE IF r.startRimHole = 1 THEN r.holes ELSE r.startRimHole - 1

\* C14: for every accepted parameter set the effective start rim hole E is
\* startRimHole for left_of_valve and ((startRimHole - 2) mod N) + 1 for
\* right_of_valve, E is in 1..N, the first row (DS logical index 1, order 1)
\* has rimHole E and the NDS logical-index-1 row has rimHole (E mod N) + 1.
C14_EffectiveStart ==
    Returned =>
        LET rs == ret[1].rows
            n == req.holes
            e == ExpectedStart(req)
        IN  /\ effective_start = e
            /\ e \in 1..n
            /\ rs[1].side = "DS" /\ hub_idx[1] = 1 /\ rs[1].order = 1
            /\ rs[1].rimHole = e
            /\ \A i \in SideRows(rs, "NDS") :
                  hub_idx[i] = 1 => rs[i].rimHole = (IF e = n THEN 1 ELSE e + 1)
            /\ \E i \in SideRows(rs, "NDS") : hub_idx[i] = 1

\* C14 witness: right_of_valve with startRimHole 1 wraps the start to N
C14_Witness ==
    /\ Returned /\ req.holes = 28 /\ req.valveReference = "right_of_valve"
    /\ req.startRimHole = 1
    /\ effective_start = 28 /\ ret[1].rows[1].rimHole = 28
    /\ ret[1].rows[15].rimHole = 1

\* the rear, symmetrical request with the other fields of r
Plain(r) == [r EXCEPT !.wheelType = "rear", !.symmetry = "symmetrical"]

\* C15: wheelType and symmetry do not influence the lacing: two accepted
\* requests that differ only in wheelType and/or symmetry get rows equal in
\* every field except notes, and with symmetry = asymmetrical every note is
\* the symmetrical note followed by the asymmetry annotation.  (Every response
\* is compared with the rows of its rear, symmetrical twin.)
C15_WheelTypeSymmetryInert ==
    Returned =>
        LET rs == ret[1].rows
            plain == pattern_rows(Plain(req))
        IN  /\ Len(plain) = Len(rs)
            /\ \A i \in 1..Len(rs) :
                  /\ [plain[i] EXCEPT !.notes = rs[i].notes] = rs[i]
                  /\ Len(plain[i].notes) = 1
                  /\ rs[i].notes =
                        (IF req.symmetry = "asymmetrical"
                         THEN plain[i].notes \o
                              <<". ", "Asymmetrical build selected (heads unchanged in v1)">>
                         ELSE plain[i].notes)

\* C15 witness: an asymmetrical front response, with the annotated note
C15_Witness ==
    /\ Returned /\ req.wheelType = "front" /\ req.symmetry = "asymmetrical"
    /\ req.holes = 24 /\ req.crosses = 3
    /\ Len(ret[1].rows[1].notes) = 3
    /\ ret[1].rows[1].notes[1] = "Reference at valve (valve-left)"

\* the hub hole a logical index gets under a start offset
Rotated(idx, offset, hh) == (((idx - 1) + (offset - 1)) % hh) + 1

\* C16: the hub start offsets rotate hub holes only, each on its own side:
\* changing startHubHoleDS changes only hubHole and spoke of the DS rows and
\* leaves every NDS row unchanged (symmetrically for startHubHoleNDS), and each
\* hubHole is ((logicalIndex - 1) + (offset - 1)) mod H + 1, within 1..H.
\* (Every response is compared with the rows for DS offset 1 and for NDS
\* offset 1.)
C16_HubOffsetsRotateOwnSide ==
    Returned =>
        LET rs == ret[1].rows
            hh == req.holes \div 2
            ds == pattern_rows([req EXCEPT !.startHubHoleDS = 1])
            nds == pattern_rows([req EXCEPT !.startHubHoleNDS = 1])
        IN  /\ Len(ds) = Len(rs) /\ Len(nds) = Len(rs)
            /\ \A i \in 1..Len(rs) :
                  /\ rs[i].hubHole \in 1..hh
                  /\ rs[i].hubHole =
                        Rotated(hub_idx[i],
                                IF rs[i].side = "DS" THEN req.startHubHoleDS
                                                     ELSE req.startHubHoleNDS, hh)
                  /\ rs[i].spoke = <<rs[i].side, "-", rs[i].hubHole \div 10,
                                     rs[i].hubHole % 10>>
                  /\ IF rs[i].side = "DS"
                     THEN /\ nds[i] = rs[i]
                          /\ ds[i].hubHole = hub_idx[i]
                          /\ [ds[i] EXCEPT !.hubHole = rs[i].hubHole,
                                           !.spoke = rs[i].spoke] = rs[i]
                     ELSE /\ ds[i] = rs[i]
                          /\ nds[i].hubHole = hub_idx[i]
                          /\ [nds[i] EXCEPT !.hubHole = rs[i].hubHole,
                                            !.spoke = rs[i].spoke] = rs[i]

\* C16 witness: the DS flange rotated by H - 1 and the NDS flange not rotated
C16_Witness ==
    /\ Returned /\ req.holes = 36 /\ req.startHubHoleDS = 18 /\ req.startHubHoleNDS = 1
    /\ ret[1].rows[2].hubHole # hub_idx[2]
    /\ ret[1].rows[20].hubHole = hub_idx[20]

\* the request is one compute_pattern accepts
Accepted ==
    /\ fn = "compute_pattern" /\ HolesValid(req.holes)
    /\ 0 <= req.crosses /\ req.crosses <= Ceiling(req.holes)

C18_KWithinSet ==
    Returned =>
        LET rs == ret[1].rows
        IN  /\ \A i \in 1..Len(rs) :
                  /\ 1 <= rs[i].k
                  /\ rs[i].k <= ret[1].derived.spokesPerSet
                  /\ (req.holes = 32 => rs[i].k <= 8)
            /\ \A i, j \in 1..Len(rs) :
                  (i # j /\ rs[i].side = rs[j].side
                         /\ rs[i].oddEvenSet = rs[j].oddEvenSet) => rs[i].k # rs[j].k

----------------------------------------------------------------------------
(* Properties of the presets API *)

\* the parameter columns of a stored row, as a payload
ColumnsOf(preset) ==
    [holes |-> preset.holes, wheelType |-> preset.wheelType,
     crosses |-> preset.crosses, symmetry |-> preset.symmetry,
     invertHeads |-> preset.invertHeads, startRimHole |-> preset.startRimHole,
     valveReference |-> preset.valveReference,
     startHubHoleDS |-> preset.startHubHoleDS,
     startHubHoleNDS |-> preset.startHubHoleNDS]

\* the presets created and not yet deleted, as the client saw them
Alive == hist_created \ hist_deleted

\* what one handled request must look like, before and after
CrudStepOk ==
    LET q == preq'
        r == presp'
        known == q.id \in PresetIds /\ store[q.id] # <<>>
    IN  /\ q.op = "list" =>
              /\ r.status = 200 /\ store' = store
              /\ {r.body[1][i].id : i \in DOMAIN r.body[1]} = Alive
              /\ Len(r.body[1]) = Cardinality(Alive)
              /\ \A i \in DOMAIN r.body[1] :
                    LET row == store[r.body[1][i].id][1]
                    IN  /\ r.body[1][i].name = row.name
                        /\ r.body[1][i].crosses = row.crosses
                        /\ r.body[1][i].updatedAt = row.updatedAt
        /\ q.op = "create" =>
              /\ r.status = 200
              /\ r.body[1].id \notin hist_created
              /\ hist_created' = hist_created \cup {r.body[1].id}
              /\ r.body[1].name = q.name[1] /\ r.body[1].params = q.params[1]
              /\ \A id \in PresetIds \ {r.body[1].id} : store'[id] = store[id]
        /\ (q.op \in {"get", "update", "delete"} /\ ~known) =>
              /\ r.status = 404 /\ store' = store
              /\ hist_created' = hist_created /\ hist_deleted' = hist_deleted
        /\ (q.op \in {"get", "update", "delete"} /\ q.id \in hist_deleted) => ~known
        /\ (q.op = "get" /\ known) =>
              /\ r.status = 200 /\ store' = store
              /\ q.id \in Alive
              /\ r.body[1].id = q.id
              /\ r.body[1].name = store[q.id][1].name
              /\ r.body[1].params = ColumnsOf(store[q.id][1])
              /\ r.body[1].createdAt = store[q.id][1].createdAt
        /\ (q.op = "update" /\ known) =>
              LET old == store[q.id][1]
                  new == store'[q.id][1]
              IN  /\ r.status = 200
                  /\ store'[q.id] # <<>>
                  /\ new.id = q.id /\ old.id = q.id
                  /\ new.createdAt = old.createdAt
                  /\ new.name = (IF q.name = <<>> THEN old.name ELSE q.name[1])
                  /\ ColumnsOf(new) =
                        (IF q.params = <<>> THEN ColumnsOf(old) ELSE q.params[1])
                  /\ new.updatedAt >= old.updatedAt
                  /\ r.body[1].id = q.id
                  /\ r.body[1].name = new.name
                  /\ r.body[1].params = ColumnsOf(new)
                  /\ r.body[1].createdAt = old.createdAt
                  /\ \A id \in PresetIds \ {q.id} : store'[id] = store[id]
                  /\ hist_created' = hist_created /\ hist_deleted' = hist_deleted
        /\ (q.op = "delete" /\ known) =>
              /\ r.status = 200
              /\ store'[q.id] = <<>>
              /\ hist_deleted' = hist_deleted \cup {q.id}
              /\ \A id \in PresetIds \ {q.id} : store'[id] = store[id]
        /\ Present(store') = hist_created' \ hist_deleted'

====
